---- MODULE Spec2Model ----
(***************************************************************************)
(* PetGroove: the job lifecycle of the FastAPI service.                    *)
(*                                                                         *)
(* Two service variants live in the repository and both are modelled:      *)
(*   "db"  - src/main.py: the Job rows live in SQLite, every transition is *)
(*           one committed transaction;                                   *)
(*   "mem" - src/job_store.py (the appended "main copy.py"): the records   *)
(*           are dicts in the module-level _jobs, written field by field.  *)
(*                                                                         *)
(* create_job and _process_job are coroutines of one event loop: between   *)
(* two awaits a coroutine runs alone on the loop (variable loop).  get_job *)
(* is a plain def, which FastAPI runs in a worker thread, so a poll may    *)
(* be taken between any two steps of the loop.                             *)
(***************************************************************************)
EXTENDS Integers, Sequences, FiniteSets, TLC

\* ---------------------------------------------------------------- bounds
\* submissions per behaviour
MaxJobs == 2

\* concurrent callers of the JobStore
MaxThreads == 2

\* Job objects constructed and passed to JobStore.create per behaviour
MaxObjects == 2

\* status requests of one run of the generation client
MaxPolls == 3

\* characters of a Content-Length header value
MaxHeader == 2

\* bytes of an image body that is written out in full
MaxBody == 3

\* -------------------------------------------------------------- constants
\* Optional[str]: None is the empty tuple, a value v is <<v>>
None == << >>

Some(v) == << v >>

\* str(e) of the exceptions a step can raise; "" is the text of an exception
\* built without a message (httpx.ReadTimeout, httpx.ReadError, ...)
Messages == {"", "failed"}

JobIds == 1..MaxJobs

Variants == {"db", "mem"}

StoreThreads == 1..MaxThreads

\* "if r.status_code >= 300": the first status code the client takes as a failure
HttpErrorFrom == 300

VARIABLES
    variant,    \* which service variant runs (fixed at start)
    use_r2,     \* STORAGE == "r2" (fixed at start)
    jobs,       \* the job records: job id -> [status, video_url, error]
    tasks,      \* the scheduled _process_job instances, in scheduling order
    sub,        \* the create_job handler being executed, if any
    responses,  \* the CreateJobResponse bodies returned so far
    lastPoll,   \* the outcome of the latest GET /jobs/{id}
    bucket,     \* the objects written to the storage backend
    loop,       \* who runs on the event loop: 0 nobody, -1 create_job, i > 0 task i
    lastStream, \* the outcome of the latest GET /files/{key}
    gen,        \* one run of generate_and_get_video_bytes, seen from inside
    objects,    \* JobStore: the Job objects ever passed to create
    store,      \* JobStore._jobs: job id -> index of its Job object
    lock,       \* JobStore._lock: 0 free, t > 0 held by thread t
    threads,    \* the callers of the JobStore, each inside at most one call
    norm,       \* one run of _prepare_prompt_image, seen from inside
    orphans     \* the jobs that were queued or processing when the process died

\* what the service itself works on
app == <<variant, use_r2, jobs, tasks, sub, responses, lastPoll, bucket, loop>>

\* the rest: the file streamer's answer, the generation client, the JobStore,
\* the image normalizer, the record of a restart
aux == <<lastStream, gen, objects, store, lock, threads, norm, orphans>>

vars == <<variant, use_r2, jobs, tasks, sub, responses, lastPoll, bucket, loop,
          lastStream, gen, objects, store, lock, threads, norm, orphans>>

\* ------------------------------------------------------------ job records
\* mutant of NewJob: the record is created already marked processing
NewJobStarted == [status |-> "processing", video_url |-> None, error |-> None]

\* Job(...) with its defaults / the dict literal of the in-memory variant
NewJob == [status |-> "queued", video_url |-> None, error |-> None]

\* CreateJobResponse(id=job_id, status="queued")
CreateJobResponse(job_id) ==
    [id |-> job_id, status |-> "queued", video_url |-> None, error |-> None]

\* GetJobResponse(id=job.id, status=job.status, video_url=..., error=...)
GetJobResponse(job_id, job) ==
    [found |-> TRUE, id |-> job_id, status |-> job.status,
     video_url |-> job.video_url, error |-> job.error]

\* HTTPException(status_code=404, detail="job not found")
JobNotFound(job_id) ==
    [found |-> FALSE, id |-> job_id, status |-> "404",
     video_url |-> None, error |-> None]

\* a pipeline that marks its record done as soon as it starts
MarkDoneEarly(job) == [job EXCEPT !.status = "done"]

\* job.status = "processing"
MarkProcessing(job) == [job EXCEPT !.status = "processing"]

\* mutant of PersistSuccess: the transaction forgets job.video_url
PersistSuccessNoUrl(job, video_url) ==
    [job EXCEPT !.status = "done", !.error = None]

\* 4) Persist success: status, video_url and error in one transaction
PersistSuccess(job, video_url) ==
    [job EXCEPT !.status = "done", !.video_url = Some(video_url), !.error = None]

\* Persist error: status, error and video_url in one transaction
PersistError(job, err) ==
    [job EXCEPT !.status = "error", !.error = Some(err), !.video_url = None]

\* mutant of ErrText: the name of the exception class instead of its text
ErrTypeName(e) == "RunwayError"

\* err = str(e)
ErrText(e) == e

\* the in-memory variant's terminal transitions, one dict store per line
MemDoneWrites(video_url) ==
    << <<"status", "done">>, <<"video_url", Some(video_url)>>, <<"error", None>> >>

MemErrorWrites(e) ==
    << <<"status", "error">>, <<"error", Some(ErrText(e))>>, <<"video_url", None>> >>

\* ----------------------------------------------------------- storage keys
\* renders/<date>/<job_id>.mp4, logs/jobs/<date>/<job_id>.json,
\* logs/jobs_failed/<date>/<job_id>.json; local renders get a fresh file name
RenderKey(job_id) == [prefix |-> "renders", job |-> job_id]

LogKey(job_id, status) ==
    [prefix |-> IF status = "success" THEN "logs/jobs" ELSE "logs/jobs_failed",
     job |-> job_id]

LocalKey(job_id) == [prefix |-> "local", job |-> job_id]

\* the URL handed to the client names the key it points at
UrlOf(key) == key

\* ------------------------------------------------------------------ tasks
\* mutant of AddTask: the pipeline is scheduled twice
AddTaskTwice(ts, job_id) ==
    Append(Append(ts, [job_id |-> job_id, pc |-> "scheduled", exc |-> None, url |-> None,
                       k |-> 1, fail |-> "none", logfail |-> FALSE]),
           [job_id |-> job_id, pc |-> "scheduled", exc |-> None, url |-> None,
            k |-> 1, fail |-> "none", logfail |-> FALSE])

\* background.add_task(_process_job, job_id): one more pipeline instance
NewTask(job_id) ==
    [job_id |-> job_id, pc |-> "scheduled", exc |-> None, url |-> None,
     k |-> 1, fail |-> "none", logfail |-> FALSE]

AddTask(ts, job_id) == Append(ts, NewTask(job_id))

\* mutant of TargetId: the pipeline works on the most recently created record
TargetIdLatest(t) == Len(jobs)

\* the record a pipeline instance reads and writes
TargetId(t) == t.job_id

\* ------------------------------------------------- JobStore: the objects
\* Job.__init__
JobObject(job_id) ==
    [id |-> job_id, status |-> "queued", video_url |-> None, error |-> None]

\* a thread outside every call; out is what its last call came to
IdleThread ==
    [pc |-> "idle", op |-> "none", id |-> 0, patch |-> << >>, ref |-> 0,
     k |-> 0, before |-> JobObject(0), out |-> "none"]

\* ------------------------------------------- generation client: the state
\* no response received yet
NoResponse == [code |-> 0, status |-> "", output |-> [shape |-> "list", urls |-> << >>]]

\* generate_and_get_video_bytes before it is called; calls counts the
\* requests sent: POST /image_to_video, GET /tasks/{id}, GET video_url
IdleGen ==
    [pc |-> "idle", task_id |-> None, resp |-> NoResponse, url |-> None,
     err |-> "", calls |-> [create |-> 0, poll |-> 0, fetch |-> 0]]

\* ------------------------------------------------ image normalizer: state
\* no answer to the HEAD request: it has not been sent, or it raised
NoProbe == [ok |-> FALSE, code |-> 0, final |-> "", cl |-> None]

\* no answer to the GET request: it has not been sent, or it raised
NoFetch ==
    [ok |-> FALSE, code |-> 0, content_type |-> None,
     body |-> [size |-> 0, bytes |-> << >>]]

\* _prepare_prompt_image before it is called; fetched: the GET was sent
IdleNorm ==
    [pc |-> "idle", url |-> "", probe |-> NoProbe, resp |-> NoFetch,
     fetched |-> FALSE, result |-> None, err |-> ""]

\* ----------------------------------------------------------------- start
Init ==
    /\ variant \in Variants
    /\ use_r2 \in BOOLEAN
    /\ jobs = << >>
    /\ tasks = << >>
    /\ sub = [pc |-> "idle", id |-> 0]
    /\ responses = << >>
    /\ lastPoll = JobNotFound(0)
    /\ bucket = {}
    /\ loop = 0
    /\ lastStream = [key |-> RenderKey(0), found |-> FALSE]
    /\ gen = IdleGen
    /\ objects = << >>
    /\ store = << >>
    /\ lock = 0
    /\ threads = [t \in StoreThreads |-> IdleThread]
    /\ norm = IdleNorm
    /\ orphans = {}


\* ------------------------------------------------------------- submission
\* job_id = uuid.uuid4().hex: an id no earlier call has returned
Uuid4 == Len(jobs) + 1

\* create_job, first part: build the record and store it
\* (session.add + commit / _jobs[job_id] = {...})
CreateInsert ==
    /\ sub.pc = "idle"
    /\ loop = 0
    /\ Uuid4 \in JobIds
    /\ jobs' = jobs @@ (Uuid4 :> NewJob)
    /\ sub' = [pc |-> "inserted", id |-> Uuid4]
    /\ loop' = -1
    /\ UNCHANGED <<aux, variant, use_r2, tasks, responses, lastPoll, bucket>>

\* create_job, second part: background.add_task(_process_job, job_id)
CreateSchedule ==
    /\ sub.pc = "inserted"
    /\ tasks' = AddTask(tasks, sub.id)
    /\ sub' = [sub EXCEPT !.pc = "scheduled"]
    /\ UNCHANGED <<aux, variant, use_r2, jobs, responses, lastPoll, bucket, loop>>

\* create_job, last part: return CreateJobResponse(...); the handler leaves
\* the loop and only then the background task may start
CreateReturn ==
    /\ sub.pc = "scheduled"
    /\ responses' = Append(responses, CreateJobResponse(sub.id))
    /\ sub' = [pc |-> "idle", id |-> 0]
    /\ loop' = 0
    /\ UNCHANGED <<aux, variant, use_r2, jobs, tasks, lastPoll, bucket>>

\* ------------------------------------------------------------------- poll
\* get_job(job_id): runs in a worker thread, reads the record in one go
Poll(job_id) ==
    /\ lastPoll' = IF job_id \in DOMAIN jobs
                   THEN GetJobResponse(job_id, jobs[job_id])
                   ELSE JobNotFound(job_id)
    /\ UNCHANGED <<aux, variant, use_r2, jobs, tasks, sub, responses, bucket, loop>>

\* --------------------------------------------------------------- pipeline
\* where the pipeline goes when the try block raises e: the except branch
Handler(t, step, e) ==
    [t EXCEPT !.pc = IF variant = "db" THEN "persist_error" ELSE "mem_error",
              !.exc = Some(e), !.fail = step, !.k = 1]

\* where the pipeline goes once the artifact is stored (and logged)
ToDone(t) ==
    [t EXCEPT !.pc = IF variant = "db" THEN "persist_done" ELSE "mem_done", !.k = 1]

\* where the pipeline goes once the error is recorded
AfterError(t) == [t EXCEPT !.pc = IF use_r2 THEN "log_error" ELSE "finished"]

\* mutant of LogSuccessFailed: the log write is not guarded, its exception
\* reaches the except branch of the pipeline
LogSuccessRaises(t) ==
    [t EXCEPT !.pc = IF variant = "db" THEN "persist_error" ELSE "mem_error",
              !.exc = Some("failed"), !.logfail = TRUE, !.k = 1]

\* a swallowed failure of the success log: except Exception: pass
LogSuccessFailed(t) == ToDone([t EXCEPT !.logfail = TRUE])

\* a swallowed failure of the error log: except Exception: pass
LogErrorFailed(t) == [t EXCEPT !.pc = "finished", !.logfail = TRUE]

\* the loop after a step of task i that ends in state t
LoopAfter(i, t) ==
    IF t.pc \in {"normalize", "generate", "gen_sleep", "finished", "raised"} THEN 0 ELSE i

\* _process_job, up to the first await: load the record, mark it processing
Start(i) ==
    /\ tasks[i].pc = "scheduled"
    /\ loop = 0
    /\ LET id == TargetId(tasks[i])
           t  == [tasks[i] EXCEPT !.pc =
                     IF id \notin DOMAIN jobs THEN "finished"
                     ELSE IF variant = "db" THEN "normalize" ELSE "generate"]
       IN /\ jobs' = IF id \in DOMAIN jobs
                     THEN [jobs EXCEPT ![id] = MarkProcessing(@)]
                     ELSE jobs
          /\ tasks' = [tasks EXCEPT ![i] = t]
          /\ loop' = LoopAfter(i, t)
    /\ UNCHANGED <<aux, variant, use_r2, sub, responses, lastPoll, bucket>>

\* 1) prompt_image = await _prepare_prompt_image(image_url) returns
NormalizeOk(i) ==
    /\ tasks[i].pc = "normalize"
    /\ loop = 0
    /\ tasks' = [tasks EXCEPT ![i].pc = "generate"]
    /\ UNCHANGED <<aux, variant, use_r2, jobs, sub, responses, lastPoll, bucket, loop>>

\* 1) _prepare_prompt_image raises (GET failed, image too large, ...)
NormalizeFail(i, e) ==
    /\ tasks[i].pc = "normalize"
    /\ loop = 0
    /\ tasks' = [tasks EXCEPT ![i] = Handler(@, "normalize", e)]
    /\ loop' = i
    /\ UNCHANGED <<aux, variant, use_r2, jobs, sub, responses, lastPoll, bucket>>

\* 2) video_bytes = await runway_generate(...) returns
GenerateOk(i) ==
    /\ tasks[i].pc = "generate"
    /\ loop = 0
    /\ tasks' = [tasks EXCEPT ![i].pc = "publish"]
    /\ loop' = i
    /\ UNCHANGED <<aux, variant, use_r2, jobs, sub, responses, lastPoll, bucket>>

\* 2) inside runway_generate the task is not finished yet: the loop of
\* _wait_for_task goes to sleep (await asyncio.sleep(2))
GenerateWait(i) ==
    /\ tasks[i].pc = "generate"
    /\ loop = 0
    /\ tasks' = [tasks EXCEPT ![i].pc = "gen_sleep"]
    /\ UNCHANGED <<aux, variant, use_r2, jobs, sub, responses, lastPoll, bucket, loop>>

\* 2) inside runway_generate the sleep is over: the next request goes out
GenerateResume(i) ==
    /\ tasks[i].pc = "gen_sleep"
    /\ loop = 0
    /\ tasks' = [tasks EXCEPT ![i].pc = "generate"]
    /\ UNCHANGED <<aux, variant, use_r2, jobs, sub, responses, lastPoll, bucket, loop>>

\* 2) runway_generate raises (create, status, task or download failed)
GenerateFail(i, e) ==
    /\ tasks[i].pc = "generate"
    /\ loop = 0
    /\ tasks' = [tasks EXCEPT ![i] = Handler(@, "generate", e)]
    /\ loop' = i
    /\ UNCHANGED <<aux, variant, use_r2, jobs, sub, responses, lastPoll, bucket>>

\* the key the artifact of a task is stored under
ArtifactKey(t) == IF use_r2 THEN RenderKey(t.job_id) ELSE LocalKey(t.job_id)

\* 3) upload_bytes_and_get_url(...) / open(fpath, "wb").write(...) returns
PublishOk(i) ==
    /\ tasks[i].pc = "publish"
    /\ loop = i
    /\ bucket' = bucket \cup {ArtifactKey(tasks[i])}
    /\ LET t == [tasks[i] EXCEPT !.url = Some(UrlOf(ArtifactKey(tasks[i])))]
       IN tasks' = [tasks EXCEPT ![i] =
                       IF use_r2 THEN [t EXCEPT !.pc = "log_success"] ELSE ToDone(t)]
    /\ UNCHANGED <<aux, variant, use_r2, jobs, sub, responses, lastPoll, loop>>

\* 3) the store raises: before the object is written (put_object, open, write)
\* or, with R2, after it (generate_presigned_url)
PublishFail(i, e, written) ==
    /\ tasks[i].pc = "publish"
    /\ loop = i
    /\ written => use_r2
    /\ bucket' = IF written THEN bucket \cup {ArtifactKey(tasks[i])} ELSE bucket
    /\ tasks' = [tasks EXCEPT ![i] = Handler(@, "publish", e)]
    /\ UNCHANGED <<aux, variant, use_r2, jobs, sub, responses, lastPoll, loop>>

\* (best effort) success log: upload_to_key(...) returns
LogSuccessOk(i) ==
    /\ tasks[i].pc = "log_success"
    /\ loop = i
    /\ bucket' = bucket \cup {LogKey(tasks[i].job_id, "success")}
    /\ tasks' = [tasks EXCEPT ![i] = ToDone(@)]
    /\ UNCHANGED <<aux, variant, use_r2, jobs, sub, responses, lastPoll, loop>>

\* (best effort) success log: upload_to_key(...) raises
LogSuccessFail(i) ==
    /\ tasks[i].pc = "log_success"
    /\ loop = i
    /\ tasks' = [tasks EXCEPT ![i] = LogSuccessFailed(@)]
    /\ UNCHANGED <<aux, variant, use_r2, jobs, sub, responses, lastPoll, bucket, loop>>


\* 4) Persist success (persisted variant): one committed transaction
PersistDone(i) ==
    /\ tasks[i].pc = "persist_done"
    /\ loop = i
    /\ LET id == TargetId(tasks[i])
       IN jobs' = IF id \in DOMAIN jobs
                  THEN [jobs EXCEPT ![id] = PersistSuccess(@, tasks[i].url[1])]
                  ELSE jobs
    /\ tasks' = [tasks EXCEPT ![i].pc = "finished"]
    /\ loop' = 0
    /\ UNCHANGED <<aux, variant, use_r2, sub, responses, lastPoll, bucket>>

\* Persist error (persisted variant): err = str(e), one committed transaction;
\* a missing record returns at once, before the error log
PersistErr(i) ==
    /\ tasks[i].pc = "persist_error"
    /\ loop = i
    /\ LET id == TargetId(tasks[i])
           t  == IF id \in DOMAIN jobs THEN AfterError(tasks[i])
                 ELSE [tasks[i] EXCEPT !.pc = "finished"]
       IN /\ jobs' = IF id \in DOMAIN jobs
                     THEN [jobs EXCEPT ![id] = PersistError(@, ErrText(tasks[i].exc[1]))]
                     ELSE jobs
          /\ tasks' = [tasks EXCEPT ![i] = t]
          /\ loop' = LoopAfter(i, t)
    /\ UNCHANGED <<aux, variant, use_r2, sub, responses, lastPoll, bucket>>

\* the dict stores a task of the in-memory variant is about to make
MemWrites(t) ==
    IF t.pc = "mem_done" THEN MemDoneWrites(t.url[1]) ELSE MemErrorWrites(t.exc[1])

\* one dict store of the in-memory variant: job[field] = value
MemWrite(i) ==
    /\ tasks[i].pc \in {"mem_done", "mem_error"}
    /\ loop = i
    /\ LET ws   == MemWrites(tasks[i])
           w    == ws[tasks[i].k]
           last == tasks[i].k = Len(ws)
           t    == IF ~last THEN [tasks[i] EXCEPT !.k = @ + 1]
                   ELSE IF tasks[i].pc = "mem_done"
                        THEN [tasks[i] EXCEPT !.pc = "finished"]
                        ELSE AfterError(tasks[i])
       IN /\ jobs' = [jobs EXCEPT ![TargetId(tasks[i])][w[1]] = w[2]]
          /\ tasks' = [tasks EXCEPT ![i] = t]
          /\ loop' = LoopAfter(i, t)
    /\ UNCHANGED <<aux, variant, use_r2, sub, responses, lastPoll, bucket>>

\* (best effort) error log: upload_to_key(...) returns
LogErrorOk(i) ==
    /\ tasks[i].pc = "log_error"
    /\ loop = i
    /\ bucket' = bucket \cup {LogKey(tasks[i].job_id, "error")}
    /\ tasks' = [tasks EXCEPT ![i].pc = "finished"]
    /\ loop' = 0
    /\ UNCHANGED <<aux, variant, use_r2, jobs, sub, responses, lastPoll>>

\* (best effort) error log: upload_to_key(...) raises
LogErrorFail(i) ==
    /\ tasks[i].pc = "log_error"
    /\ loop = i
    /\ tasks' = [tasks EXCEPT ![i] = LogErrorFailed(@)]
    /\ loop' = 0
    /\ UNCHANGED <<aux, variant, use_r2, jobs, sub, responses, lastPoll, bucket>>

\* ---------------------------------------------------------- file streamer
\* the keys a client may ask GET /files/{key} for
StreamKeys ==
    UNION {{RenderKey(j), LocalKey(j), LogKey(j, "success"), LogKey(j, "error")} :
           j \in JobIds}

\* stream_file(key): a key under local/ is looked up in LOCAL_DIR, any other
\* key in the bucket when STORAGE is r2; everything else is a 404
StreamFound(key) ==
    IF key.prefix = "local" THEN ~use_r2 /\ key \in bucket
    ELSE use_r2 /\ key \in bucket

StreamFile(key) ==
    /\ lastStream' = [key |-> key, found |-> StreamFound(key)]
    /\ UNCHANGED <<app, norm, orphans, gen, objects, store, lock, threads>>

\* ------------------------------------------- failures of the record store
\* session.get / session.commit raise (database locked, disk full, ...);
\* only the persisted variant has operations that can.

\* load and mark processing: outside the try block, the exception leaves
\* _process_job and the transaction is not committed
StartFail(i) ==
    /\ variant = "db"
    /\ tasks[i].pc = "scheduled"
    /\ loop = 0
    /\ tasks' = [tasks EXCEPT ![i].pc = "raised"]
    /\ UNCHANGED <<aux, variant, use_r2, jobs, sub, responses, lastPoll, bucket, loop>>

\* 4) Persist success raises inside the try block: the except branch runs
PersistDoneFail(i, e) ==
    /\ tasks[i].pc = "persist_done"
    /\ loop = i
    /\ tasks' = [tasks EXCEPT ![i] = Handler(@, "persist", e)]
    /\ UNCHANGED <<aux, variant, use_r2, jobs, sub, responses, lastPoll, bucket, loop>>

\* Persist error raises inside the except branch: nothing catches it
PersistErrFail(i) ==
    /\ tasks[i].pc = "persist_error"
    /\ loop = i
    /\ tasks' = [tasks EXCEPT ![i].pc = "raised"]
    /\ loop' = 0
    /\ UNCHANGED <<aux, variant, use_r2, jobs, sub, responses, lastPoll, bucket>>

\* ---------------------------------------------------------------- JobStore
\* class JobStore of src/job_store.py: a dict of Job objects and one
\* threading.Lock.  Its callers are threads; a thread is inside at most one
\* call, and "wait" is a caller blocked at "with self._lock".

\* the keyword arguments callers pass to update, in keyword order
StorePatches ==
    { << <<"status", "processing">> >>,
      << <<"status", "error">>, <<"error", Some("failed")>> >> }

\* setattr(job, k, v)
SetAttr(job, kv) == [job EXCEPT ![kv[1]] = kv[2]]

\* the whole loop "for k, v in kwargs.items(): setattr(job, k, v)"
RECURSIVE ApplyPatch(_, _)
ApplyPatch(job, patch) ==
    IF patch = << >> THEN job
    ELSE ApplyPatch(SetAttr(job, Head(patch)), Tail(patch))

\* "with self._lock" entered without waiting for the lock
LockIgnored == TRUE

\* "with self._lock": the caller enters when no thread holds the lock
LockFree == lock = 0

\* self._jobs.get(job_id) that hands out some stored object for an unknown id
LookupAny(job_id) ==
    IF job_id \in DOMAIN store THEN store[job_id]
    ELSE IF store = << >> THEN 0
    ELSE store[CHOOSE j \in DOMAIN store : TRUE]

\* self._jobs.get(job_id): the index of the stored object, 0 for None
Lookup(job_id) == IF job_id \in DOMAIN store THEN store[job_id] ELSE 0

\* a caller builds Job(job_id, ...) and calls create(job)
CallCreate(t, job_id) ==
    /\ threads[t].pc = "idle"
    /\ Len(objects) < MaxObjects
    /\ objects' = Append(objects, JobObject(job_id))
    /\ threads' = [threads EXCEPT ![t] =
           [IdleThread EXCEPT !.pc = "wait", !.op = "create", !.id = job_id,
                              !.ref = Len(objects) + 1]]
    /\ UNCHANGED <<app, norm, orphans, lastStream, gen, store, lock>>

CallGet(t, job_id) ==
    /\ threads[t].pc = "idle"
    /\ threads' = [threads EXCEPT ![t] =
           [IdleThread EXCEPT !.pc = "wait", !.op = "get", !.id = job_id]]
    /\ UNCHANGED <<app, norm, orphans, lastStream, gen, objects, store, lock>>

CallUpdate(t, job_id, patch) ==
    /\ threads[t].pc = "idle"
    /\ threads' = [threads EXCEPT ![t] =
           [IdleThread EXCEPT !.pc = "wait", !.op = "update", !.id = job_id,
                              !.patch = patch]]
    /\ UNCHANGED <<app, norm, orphans, lastStream, gen, objects, store, lock>>

\* create: self._jobs[job.id] = job under the lock, whatever the dict held
StoreCreate(t) ==
    /\ threads[t].pc = "wait" /\ threads[t].op = "create"
    /\ LockFree
    /\ store' = [j \in DOMAIN store \cup {threads[t].id} |->
                    IF j = threads[t].id THEN threads[t].ref ELSE store[j]]
    /\ threads' = [threads EXCEPT ![t] =
           [IdleThread EXCEPT !.out = "stored"]]
    /\ UNCHANGED <<app, norm, orphans, lastStream, gen, objects, lock>>

\* get: the lookup under the lock; the caller is handed the stored object
\* itself, not a copy, and the lock is released on return
StoreGet(t) ==
    /\ threads[t].pc = "wait" /\ threads[t].op = "get"
    /\ LockFree
    /\ threads' = [threads EXCEPT ![t] =
           IF Lookup(threads[t].id) = 0
           THEN [IdleThread EXCEPT !.out = "None"]
           ELSE [@ EXCEPT !.pc = "got", !.ref = Lookup(threads[t].id)]]
    /\ UNCHANGED <<app, norm, orphans, lastStream, gen, objects, store, lock>>

\* the object behind ref is in the middle of an update's setattr loop: some
\* of the patch's fields are applied and others are not
Partial(ref) ==
    \E u \in StoreThreads :
        /\ threads[u].pc = "setattr" /\ threads[u].ref = ref
        /\ objects[ref] # threads[u].before
        /\ objects[ref] # ApplyPatch(threads[u].before, threads[u].patch)

\* the caller of get reads the fields of the object it was handed; it holds
\* no lock while it does
Observe(t) ==
    /\ threads[t].pc = "got"
    /\ threads' = [threads EXCEPT ![t] =
           [IdleThread EXCEPT !.out = IF Partial(threads[t].ref) THEN "torn" ELSE "whole"]]
    /\ UNCHANGED <<app, norm, orphans, lastStream, gen, objects, store, lock>>

\* update on an id the dict holds: the lock is taken and the loop begins
UpdateBegin(t) ==
    /\ threads[t].pc = "wait" /\ threads[t].op = "update"
    /\ LockFree
    /\ Lookup(threads[t].id) # 0
    /\ lock' = t
    /\ threads' = [threads EXCEPT ![t] =
           [@ EXCEPT !.pc = "setattr", !.ref = Lookup(threads[t].id), !.k = 1,
                     !.before = objects[Lookup(threads[t].id)]]]
    /\ UNCHANGED <<app, norm, orphans, lastStream, gen, objects, store>>

\* update on an id the dict does not hold: "if not job: return"
UpdateMissing(t) ==
    /\ threads[t].pc = "wait" /\ threads[t].op = "update"
    /\ LockFree
    /\ Lookup(threads[t].id) = 0
    /\ threads' = [threads EXCEPT ![t] =
           [IdleThread EXCEPT !.out = "noop"]]
    /\ UNCHANGED <<app, norm, orphans, lastStream, gen, objects, store, lock>>

\* one setattr of the loop; after the last one the with block ends
UpdateSet(t) ==
    /\ threads[t].pc = "setattr"
    /\ objects' = [objects EXCEPT ![threads[t].ref] =
                      SetAttr(@, threads[t].patch[threads[t].k])]
    /\ IF threads[t].k < Len(threads[t].patch)
       THEN /\ threads' = [threads EXCEPT ![t].k = @ + 1]
            /\ lock' = lock
       ELSE /\ threads' = [threads EXCEPT ![t] =
                   [IdleThread EXCEPT !.out = "updated"]]
            /\ lock' = 0
    /\ UNCHANGED <<app, norm, orphans, lastStream, gen, store>>

\* ------------------------------------------------------- generation client
\* src/runway_client.py, one call of generate_and_get_video_bytes.  The
\* provider's answers are inputs.

\* the answers to POST /image_to_video: a status code and whether the body has "id"
CreateResponses == [code : {200, 500}, id : {None, Some("task")}]

\* data.get("status") of the answers to GET /tasks/{id}; the provider's own
\* values are PENDING, THROTTLED, RUNNING, SUCCEEDED, FAILED and CANCELLED
TaskStatuses ==
    {"SUCCEEDED", "succeeded", "FAILED", "failed", "CANCELLED", "cancelled",
     "CANCELED", "RUNNING", "PENDING"}

\* data.get("output"): a list (urls its items) or a dict (urls its "uri", if any)
TaskOutputs == [shape : {"list", "dict"}, urls : {<< >>, <<"video">>}]

TaskResponses == [code : {200, 302, 500}, status : TaskStatuses, output : TaskOutputs]

\* the status codes of the answers to GET video_url
FetchCodes == {200, 404}

Raise(err) == [kind |-> "raise", err |-> err, value |-> None]

Return(value) == [kind |-> "return", err |-> "", value |-> value]

\* _create_task that takes whatever the answer holds for a task id
CreateTaskUnchecked(r) == Return(r.id)

\* _create_task: the task id, RunwayError on a failure status, KeyError when
\* the body has no "id"
CreateTask(r) ==
    IF r.code >= HttpErrorFrom THEN Raise("create failed")
    ELSE IF r.id = None THEN Raise("KeyError")
    ELSE Return(r.id)

\* outputs[0] of a non-empty list, outputs["uri"] of a dict that has one
OutputUrl(output) == output.urls

\* one round of the loop of _wait_for_task on the answer r: return the URL,
\* raise, or sleep and ask again
WaitRound(r) ==
    IF r.code >= HttpErrorFrom THEN Raise("status failed")
    ELSE IF r.status = "SUCCEEDED" \/ r.status = "succeeded"
    THEN IF OutputUrl(r.output) # None THEN Return(OutputUrl(r.output))
         ELSE Raise("no video URL in output")
    ELSE IF r.status \in {"FAILED", "failed", "CANCELED", "cancelled"}
    THEN Raise("task failed")
    ELSE [kind |-> "sleep", err |-> "", value |-> None]

\* runway_generate is called: the client is built and the POST goes out
GenCall ==
    /\ gen.pc \in {"idle", "returned", "raised"}
    /\ gen' = [IdleGen EXCEPT !.pc = "create", !.calls.create = 1]
    /\ UNCHANGED <<app, norm, orphans, lastStream, objects, store, lock, threads>>

\* the POST is answered; with a task id the first status request goes out
GenCreated(r) ==
    /\ gen.pc = "create"
    /\ gen' = IF CreateTask(r).kind = "raise"
              THEN [gen EXCEPT !.pc = "raised", !.err = CreateTask(r).err]
              ELSE [gen EXCEPT !.pc = "poll", !.task_id = CreateTask(r).value,
                               !.calls.poll = 1]
    /\ UNCHANGED <<app, norm, orphans, lastStream, objects, store, lock, threads>>

\* a status request is answered; with a URL the download request goes out
GenPolled(r) ==
    /\ gen.pc = "poll"
    /\ gen' = CASE WaitRound(r).kind = "raise" ->
                     [gen EXCEPT !.pc = "raised", !.resp = r, !.err = WaitRound(r).err]
                [] WaitRound(r).kind = "return" ->
                     [gen EXCEPT !.pc = "fetch", !.resp = r, !.url = WaitRound(r).value,
                                 !.calls.fetch = 1]
                [] OTHER -> [gen EXCEPT !.pc = "sleep", !.resp = r]
    /\ UNCHANGED <<app, norm, orphans, lastStream, objects, store, lock, threads>>

\* asyncio.sleep(2) is over: the next status request goes out
GenSlept ==
    /\ gen.pc = "sleep"
    /\ gen.calls.poll < MaxPolls
    /\ gen' = [gen EXCEPT !.pc = "poll", !.calls.poll = @ + 1]
    /\ UNCHANGED <<app, norm, orphans, lastStream, objects, store, lock, threads>>

\* the download is answered: the bytes are returned or RunwayError is raised
GenFetched(code) ==
    /\ gen.pc = "fetch"
    /\ gen' = IF code >= HttpErrorFrom
              THEN [gen EXCEPT !.pc = "raised", !.err = "download failed"]
              ELSE [gen EXCEPT !.pc = "returned"]
    /\ UNCHANGED <<app, norm, orphans, lastStream, objects, store, lock, threads>>

\* ----------------------------------------------------------------- restart
\* The process dies and is started again with the persisted store.  The
\* coroutines and the event loop are gone; the committed rows, the bucket
\* and what the clients have seen stay.

\* a pipeline that startup schedules again from its beginning
ResumeOnRestart(t) ==
    IF t.pc \in {"finished", "raised"} THEN t ELSE [t EXCEPT !.pc = "scheduled"]

\* what is left of a pipeline after the restart: _on_startup only calls
\* init_db, nothing looks for unfinished jobs, so a pipeline that had not
\* ended never takes another step
AfterRestart(t) ==
    IF t.pc \in {"finished", "raised"} THEN t ELSE [t EXCEPT !.pc = "dead"]

\* the jobs a restart finds queued or processing
Unfinished == {j \in DOMAIN jobs : jobs[j].status \in {"queued", "processing"}}

Restart ==
    /\ variant = "db"
    /\ tasks' = [i \in DOMAIN tasks |-> AfterRestart(tasks[i])]
    /\ sub' = [pc |-> "idle", id |-> 0]
    /\ loop' = 0
    /\ orphans' = orphans \cup Unfinished
    /\ UNCHANGED <<variant, use_r2, jobs, responses, lastPoll, bucket,
                   lastStream, gen, objects, store, lock, threads, norm>>

\* -------------------------------------------------------- image normalizer
\* _prepare_prompt_image of src/main.py.  The image host's answers are inputs.

\* the characters of a Content-Length value: two ASCII digits, a letter, and
\* SUPERSCRIPT TWO, for which str.isdigit() is True and int() raises
HeaderChars == {"0", "7", "x", "sup2"}

\* all sequences over S of length at most n
RECURSIVE SeqsUpTo(_, _)
SeqsUpTo(S, n) ==
    IF n = 0 THEN {<< >>}
    ELSE LET shorter == SeqsUpTo(S, n - 1)
         IN shorter \cup {Append(q, x) : q \in shorter, x \in S}

\* head.headers.get("content-length"): None or the value
HeaderValues == {None} \cup {Some(v) : v \in SeqsUpTo(HeaderChars, MaxHeader)}

\* the answers to HEAD image_url: an exception, or a response reached after
\* the redirects (final is head.request.url)
Probes ==
    {NoProbe} \cup
    [ok : {TRUE}, code : {200, 404}, final : {"img", "cdn/img"}, cl : HeaderValues]

ImageBytes == {0, 77, 255}

\* "if len(data) > 10 * 1024 * 1024"
InlineLimit == 10 * 1024 * 1024

\* r.content: its length and its bytes; of a body too long to write out the
\* model keeps the length and the first three bytes
Bodies ==
    {[size |-> Len(b), bytes |-> b] : b \in SeqsUpTo(ImageBytes, MaxBody)}
    \cup [size : {InlineLimit, InlineLimit + 1}, bytes : {<<0, 77, 255>>, <<255, 255, 255>>}]

\* the answers to GET image_url: an exception, or a response
Fetches ==
    {NoFetch} \cup
    [ok : {TRUE}, code : {200, 404}, content_type : {None, Some("image/png")},
     body : Bodies]

\* str.isdigit() of one character
IsDigit(c) == c \in {"0", "7", "sup2"}

\* int(cl): the value, or -1 for the ValueError on a digit that is not ASCII
RECURSIVE IntOf(_)
IntOf(v) ==
    IF v = << >> THEN 0
    ELSE LET c == v[Len(v)]
             rest == IntOf(SubSeq(v, 1, Len(v) - 1))
         IN IF c = "sup2" \/ rest < 0 THEN -1
            ELSE 10 * rest + (IF c = "7" THEN 7 ELSE 0)

\* a length test that takes any header that is present
AnyLength(cl) == cl # None

\* "if cl and cl.isdigit() and int(cl) > 0", the ValueError of int() being
\* swallowed by "except Exception: pass"
UsableLength(cl) ==
    /\ cl # None
    /\ cl[1] # << >>
    /\ \A k \in DOMAIN cl[1] : IsDigit(cl[1][k])
    /\ IntOf(cl[1]) > 0

\* base64.b64encode(data): three bytes make four symbols, each the index of
\* a character in the base64 alphabet; 64 stands for the padding "="
RECURSIVE B64Encode(_)
B64Encode(b) ==
    IF b = << >> THEN << >>
    ELSE IF Len(b) = 1
    THEN << b[1] \div 4, (b[1] % 4) * 16, 64, 64 >>
    ELSE IF Len(b) = 2
    THEN << b[1] \div 4, (b[1] % 4) * 16 + b[2] \div 16, (b[2] % 16) * 4, 64 >>
    ELSE << b[1] \div 4, (b[1] % 4) * 16 + b[2] \div 16,
            (b[2] % 16) * 4 + b[3] \div 64, b[3] % 64 >>
         \o B64Encode(SubSeq(b, 4, Len(b)))

\* return str(head.request.url)
UrlResult(probe) ==
    [kind |-> "url", url |-> probe.final, mime |-> "", payload |-> << >>]

\* return f"data:{content_type};base64,{b64}"
DataResult(resp) ==
    [kind |-> "data", url |-> "",
     mime |-> IF resp.content_type = None THEN "image/jpeg" ELSE resp.content_type[1],
     payload |-> B64Encode(resp.body.bytes)]

\* r.raise_for_status() returns
IsSuccess(code) == code \div 100 = 2

\* _prepare_prompt_image is called: the HEAD request goes out
NormCall(image_url) ==
    /\ norm.pc \in {"idle", "returned", "raised"}
    /\ norm' = [IdleNorm EXCEPT !.pc = "head", !.url = image_url]
    /\ UNCHANGED <<app, orphans, lastStream, gen, objects, store, lock, threads>>

\* the HEAD request is answered or raises: the URL is returned, or the GET
\* request goes out
NormHead(probe) ==
    /\ norm.pc = "head"
    /\ norm' = IF probe.ok /\ UsableLength(probe.cl)
               THEN [norm EXCEPT !.pc = "returned", !.probe = probe,
                                 !.result = Some(UrlResult(probe))]
               ELSE [norm EXCEPT !.pc = "get", !.probe = probe, !.fetched = TRUE]
    /\ UNCHANGED <<app, orphans, lastStream, gen, objects, store, lock, threads>>

\* the GET request is answered or raises
NormGet(resp) ==
    /\ norm.pc = "get"
    /\ norm' = IF ~resp.ok
               THEN [norm EXCEPT !.pc = "raised", !.resp = resp, !.err = "RequestError"]
               ELSE IF ~IsSuccess(resp.code)
               THEN [norm EXCEPT !.pc = "raised", !.resp = resp, !.err = "HTTPStatusError"]
               ELSE IF resp.body.size > InlineLimit
               THEN [norm EXCEPT !.pc = "raised", !.resp = resp, !.err = "ValueError"]
               ELSE [norm EXCEPT !.pc = "returned", !.resp = resp,
                                 !.result = Some(DataResult(resp))]
    /\ UNCHANGED <<app, orphans, lastStream, gen, objects, store, lock, threads>>

\* ---------------------------------------------------------- specifications
\* the submissions and the pipelines
Run ==
    \/ CreateInsert
    \/ CreateSchedule
    \/ CreateReturn
    \/ \E i \in DOMAIN tasks : Start(i)
    \/ \E i \in DOMAIN tasks : NormalizeOk(i)
    \/ \E i \in DOMAIN tasks, e \in Messages : NormalizeFail(i, e)
    \/ \E i \in DOMAIN tasks : GenerateWait(i)
    \/ \E i \in DOMAIN tasks : GenerateResume(i)
    \/ \E i \in DOMAIN tasks : GenerateOk(i)
    \/ \E i \in DOMAIN tasks, e \in Messages : GenerateFail(i, e)
    \/ \E i \in DOMAIN tasks : PublishOk(i)
    \/ \E i \in DOMAIN tasks, e \in Messages, written \in BOOLEAN : PublishFail(i, e, written)
    \/ \E i \in DOMAIN tasks : LogSuccessOk(i)
    \/ \E i \in DOMAIN tasks : LogSuccessFail(i)
    \/ \E i \in DOMAIN tasks : PersistDone(i)
    \/ \E i \in DOMAIN tasks : PersistErr(i)
    \/ \E i \in DOMAIN tasks : MemWrite(i)
    \/ \E i \in DOMAIN tasks : LogErrorOk(i)
    \/ \E i \in DOMAIN tasks : LogErrorFail(i)

\* the service: submissions, pipelines and polls
Next ==
    \/ Run
    \/ \E job_id \in 0..MaxJobs : Poll(job_id)

\* the record store never fails
Spec == Init /\ [][Next]_vars

NextF ==
    \/ Next
    \/ \E i \in DOMAIN tasks : StartFail(i)
    \/ \E i \in DOMAIN tasks, e \in Messages : PersistDoneFail(i, e)
    \/ \E i \in DOMAIN tasks : PersistErrFail(i)

\* the record store may fail
SpecF == Init /\ [][NextF]_vars

\* the steps of pipeline i
PipelineStep(i) ==
    /\ i \in DOMAIN tasks
    /\ \/ Start(i)
       \/ NormalizeOk(i)
       \/ \E e \in Messages : NormalizeFail(i, e)
       \/ GenerateWait(i)
       \/ GenerateResume(i)
       \/ GenerateOk(i)
       \/ \E e \in Messages : GenerateFail(i, e)
       \/ PublishOk(i)
       \/ \E e \in Messages, written \in BOOLEAN : PublishFail(i, e, written)
       \/ LogSuccessOk(i)
       \/ LogSuccessFail(i)
       \/ PersistDone(i)
       \/ PersistErr(i)
       \/ MemWrite(i)
       \/ LogErrorOk(i)
       \/ LogErrorFail(i)

\* the event loop runs every coroutine that is ready, and every awaited call
\* comes back, with a result or an exception: a handler that has begun goes
\* on to its end, and a pipeline that can take a step again and again takes
\* one.  Nothing makes the provider ever report a task as finished.
Fairness ==
    /\ WF_vars(CreateSchedule \/ CreateReturn)
    /\ \A i \in JobIds : SF_vars(PipelineStep(i))

\* the service while the process keeps running
SpecLive == Init /\ [][Next]_vars /\ Fairness

NextRestart ==
    \/ Next
    \/ Restart

\* the service across restarts of the process; only the persisted variant
\* has anything to come back to, and only it is restarted
SpecRestart == Init /\ [][NextRestart]_vars

NextFiles ==
    \/ Run
    \/ \E key \in StreamKeys : StreamFile(key)

\* the service with its file streamer, polls left out
SpecFiles == Init /\ [][NextFiles]_vars

NextStore ==
    \/ \E t \in StoreThreads, job_id \in JobIds : CallCreate(t, job_id)
    \/ \E t \in StoreThreads, job_id \in JobIds : CallGet(t, job_id)
    \/ \E t \in StoreThreads, job_id \in JobIds, patch \in StorePatches :
          CallUpdate(t, job_id, patch)
    \/ \E t \in StoreThreads : StoreCreate(t)
    \/ \E t \in StoreThreads : StoreGet(t)
    \/ \E t \in StoreThreads : Observe(t)
    \/ \E t \in StoreThreads : UpdateBegin(t)
    \/ \E t \in StoreThreads : UpdateMissing(t)
    \/ \E t \in StoreThreads : UpdateSet(t)

\* the JobStore reads nothing of the service: one start is enough
InitStore == Init /\ variant = "mem" /\ use_r2 = FALSE

\* the JobStore under concurrent callers
SpecStore == InitStore /\ [][NextStore]_vars

NextGen ==
    \/ GenCall
    \/ \E r \in CreateResponses : GenCreated(r)
    \/ \E r \in TaskResponses : GenPolled(r)
    \/ GenSlept
    \/ \E code \in FetchCodes : GenFetched(code)

\* the generation client reads nothing of the service: one start is enough
InitGen == Init /\ variant = "db" /\ use_r2 = TRUE

\* the generation client against every provider
SpecGen == InitGen /\ [][NextGen]_vars

\* the normalizer reads nothing of the service: one start is enough
InitNorm == Init /\ variant = "db" /\ use_r2 = FALSE

NextNorm ==
    \/ NormCall("img")
    \/ \E probe \in Probes : NormHead(probe)
    \/ \E resp \in Fetches : NormGet(resp)

\* the image normalizer against every image host
SpecNorm == InitNorm /\ [][NextNorm]_vars

\* ------------------------------------------------------------- vocabulary
Terminal(status) == status \in {"done", "error"}

\* the pipeline instances scheduled for a job id
TasksOf(job_id) == {i \in DOMAIN tasks : tasks[i].job_id = job_id}

\* the pipeline of task i has returned to its scheduler
Finished(i) == tasks[i].pc = "finished"

\* the ids submissions have handed to clients
ReturnedIds == {responses[r].id : r \in DOMAIN responses}

\* the record a returned pipeline leaves, from the outcome of its own
\* normalize, generate and publish steps
Outcome(t) ==
    IF t.fail = "none"
    THEN [status |-> "done", video_url |-> t.url, error |-> None]
    ELSE [status |-> "error", video_url |-> None, error |-> t.exc]

StatusEdges ==
    {<<"queued", "processing">>, <<"processing", "done">>, <<"processing", "error">>}

\* ------------------------------------------------------------------ claims

\* C1: the status of every record only moves along queued -> processing ->
\* done | error, and a record whose status is done or error is never written
\* again.
C1_StatusPath ==
    [][\A j \in DOMAIN jobs :
          /\ jobs'[j].status # jobs[j].status
                => <<jobs[j].status, jobs'[j].status>> \in StatusEdges
          /\ Terminal(jobs[j].status) => jobs'[j] = jobs[j]]_vars

\* C2: a record in queued or processing has neither video_url nor error; once
\* the pipeline has returned, done comes with a video_url and no error, and
\* error comes with an error and no video_url.
C2_RecordShape ==
    \A j \in DOMAIN jobs :
        /\ jobs[j].status \in {"queued", "processing"}
              => jobs[j].video_url = None /\ jobs[j].error = None
        /\ \A i \in TasksOf(j) : Finished(i) =>
              /\ jobs[j].status = "done"
                    => jobs[j].video_url # None /\ jobs[j].error = None
              /\ jobs[j].status = "error"
                    => jobs[j].error # None /\ jobs[j].video_url = None

C2_Witness ==
    /\ \E i \in DOMAIN tasks : Finished(i) /\ jobs[tasks[i].job_id].status = "done"
    /\ \E i \in DOMAIN tasks : Finished(i) /\ jobs[tasks[i].job_id].status = "error"

\* C3: every poll answer is queued or processing without video_url and error,
\* or done with a video_url and no error, or error with an error and no
\* video_url.
C3_PollShape ==
    lastPoll.found =>
        \/ /\ lastPoll.status \in {"queued", "processing"}
           /\ lastPoll.video_url = None
           /\ lastPoll.error = None
        \/ /\ lastPoll.status = "done"
           /\ lastPoll.video_url # None
           /\ lastPoll.error = None
        \/ /\ lastPoll.status = "error"
           /\ lastPoll.error # None
           /\ lastPoll.video_url = None

C5_NeverRaises == \A i \in DOMAIN tasks : tasks[i].pc # "raised"

\* C6: a pipeline one of whose log writes failed leaves the record that the
\* outcome of its normalize, generate and publish steps alone determines.
C6_LogFailureIsolated ==
    \A i \in DOMAIN tasks :
        Finished(i) /\ tasks[i].logfail => jobs[tasks[i].job_id] = Outcome(tasks[i])

C6_Witness ==
    /\ \E i \in DOMAIN tasks :
          Finished(i) /\ tasks[i].logfail /\ jobs[tasks[i].job_id].status = "done"
    /\ \E i \in DOMAIN tasks :
          Finished(i) /\ tasks[i].logfail /\ jobs[tasks[i].job_id].status = "error"

\* C7: a returned pipeline leaves done with a non-empty video_url and no
\* error, or error with a non-empty error text and no video_url.
C7_NonEmpty ==
    \A i \in DOMAIN tasks : Finished(i) =>
        LET job == jobs[tasks[i].job_id]
        IN /\ job.status = "done" => job.error = None /\ job.video_url # None
           /\ job.status = "error" =>
                 job.video_url = None /\ job.error # None /\ job.error # Some("")


\* C8: submissions return pairwise distinct ids; a step that changes the
\* record of a job is a step of the one pipeline scheduled for that job and of
\* no other; and a returned pipeline leaves the record that its own normalize,
\* generate and publish outcomes determine.
C8_Isolation ==
    /\ [](\A a, b \in DOMAIN responses : a # b => responses[a].id # responses[b].id)
    /\ [](\A i \in DOMAIN tasks : Finished(i) => jobs[tasks[i].job_id] = Outcome(tasks[i]))
    /\ [][\A j \in DOMAIN jobs : jobs'[j] # jobs[j] =>
             /\ \E i \in DOMAIN tasks : tasks'[i] # tasks[i]
             /\ \A i \in DOMAIN tasks : tasks'[i] # tasks[i] => tasks[i].job_id = j]_vars

\* the second submission's pipeline has returned while the first one's is
\* still under way, and the two records differ
C8_Witness ==
    /\ Len(tasks) = 2
    /\ Len(responses) = 2
    /\ Finished(2)
    /\ tasks[1].pc = "generate"
    /\ jobs[2].status = "done"
    /\ jobs[1].status = "processing"

\* C9: every job id has exactly one pipeline instance, from the moment its
\* submission has scheduled it, and never more than one.
C9_OnePipelinePerJob ==
    \A j \in DOMAIN jobs :
        Cardinality(TasksOf(j)) = IF sub.pc = "inserted" /\ sub.id = j THEN 0 ELSE 1

\* two pipelines are under way at once, each on its own record
C9_Witness ==
    /\ Len(tasks) = 2
    /\ tasks[1].pc = "generate"
    /\ tasks[2].pc = "generate"
    /\ tasks[1].job_id # tasks[2].job_id

\* C10: the record exists, queued and without video_url and error, when the
\* pipeline is scheduled and when the response is returned; the response is
\* {id, queued, null, null} and is returned before the pipeline has taken a
\* step; and a poll of a returned id is never answered not-found.
C10_SubmitThenRun ==
    /\ [](\A r \in DOMAIN responses :
             /\ responses[r] = [id |-> responses[r].id, status |-> "queued",
                                video_url |-> None, error |-> None]
             /\ responses[r].id \in DOMAIN jobs)
    /\ [](\A i \in DOMAIN tasks : tasks[i].job_id \in DOMAIN jobs)
    /\ [][/\ tasks' # tasks /\ Len(tasks') > Len(tasks) =>
                \A i \in DOMAIN tasks' \ DOMAIN tasks :
                    /\ tasks'[i].job_id \in DOMAIN jobs
                    /\ jobs[tasks'[i].job_id] =
                          [status |-> "queued", video_url |-> None, error |-> None]
          /\ responses' # responses =>
                LET id == responses'[Len(responses')].id
                IN /\ id \in DOMAIN jobs
                   /\ jobs[id] = [status |-> "queued", video_url |-> None, error |-> None]
                   /\ \A i \in TasksOf(id) : tasks[i].pc = "scheduled"
          /\ lastPoll' # lastPoll /\ lastPoll'.id \in ReturnedIds => lastPoll'.found]_vars

\* a poll of a returned id answered queued: the submission returned before
\* its pipeline began
C10_Witness ==
    /\ Len(responses) >= 1
    /\ lastPoll.found
    /\ lastPoll.id = responses[1].id
    /\ lastPoll.status = "queued"
    /\ tasks[1].pc = "scheduled"


\* C11: a poll that follows a poll of the same id answered done or error gets
\* the same answer.
C11_PollIdempotent ==
    [][lastPoll.found /\ Terminal(lastPoll.status) /\ lastPoll'.id = lastPoll.id
          => lastPoll' = lastPoll]_vars

\* C16: the file streamer answers with content only for the key of an
\* artifact that a publish has written.
C16_OnlyArtifacts ==
    lastStream.found =>
        /\ lastStream.key.prefix \in {"renders", "local"}
        /\ \E i \in DOMAIN tasks :
              tasks[i].pc \notin {"scheduled", "normalize", "generate", "gen_sleep"}
              /\ lastStream.key = ArtifactKey(tasks[i])

\* C18: the generation call starts only out of a normalization that
\* succeeded, the publish step only out of a generation call that returned,
\* an artifact is only written by the publish step, and no artifact of a job
\* whose generation failed is in the store.
C18_StepOrder ==
    /\ [](\A i \in DOMAIN tasks :
             tasks[i].fail \in {"normalize", "generate"} => ArtifactKey(tasks[i]) \notin bucket)
    /\ [][\A i \in DOMAIN tasks :
             /\ tasks'[i].pc = "generate" /\ tasks[i].pc \notin {"generate", "gen_sleep"}
                   => tasks[i].pc = "normalize"
             /\ tasks'[i].pc = "publish" /\ tasks[i].pc # "publish"
                   => tasks[i].pc = "generate"
             /\ ArtifactKey(tasks[i]) \in bucket' \ bucket
                   => tasks[i].pc = "publish"]_vars

\* C12: create never replaces the record stored under an id: once an id is
\* in the store, it stays bound to the same Job object.
C12_NoReplace ==
    [][\A j \in DOMAIN store : j \in DOMAIN store' /\ store'[j] = store[j]]_vars

\* C13: a reader that got a record with get never sees it with only a part
\* of a multi-field patch applied.
C13_AtomicUpdate == \A t \in StoreThreads : threads[t].out # "torn"

\* an update is inside its setattr loop
Updating(t) == threads[t].pc = "setattr"

\* an update has been called and has not yet entered the with block
WaitingUpdate(t) == threads[t].pc = "wait" /\ threads[t].op = "update"

\* C14 (as stated): an update in progress on one id does not keep an update
\* on a different id from proceeding, and updates to one id are serialized.
C14_DifferentIdsFree ==
    \A t, u \in StoreThreads :
        /\ Updating(t) /\ WaitingUpdate(u) /\ threads[u].id # threads[t].id
              => ENABLED (UpdateBegin(u) \/ UpdateMissing(u))
        /\ Updating(t) /\ Updating(u) /\ threads[u].id = threads[t].id => t = u

\* C14 (amended): all updates are serialized by the one lock of the store:
\* at most one update is in progress, its thread holds the lock, and a
\* waiting update, whatever its id, proceeds exactly when the lock is free.
C14_StoreWideLock ==
    /\ \A t, u \in StoreThreads : Updating(t) /\ Updating(u) => t = u
    /\ \A t \in StoreThreads : Updating(t) => lock = t
    /\ \A u \in StoreThreads :
          WaitingUpdate(u) =>
              ((ENABLED (UpdateBegin(u) \/ UpdateMissing(u))) <=> lock = 0)

\* an update of one id is in progress while an update of another stored id waits
C14_Witness ==
    \E t, u \in StoreThreads :
        /\ Updating(t) /\ WaitingUpdate(u)
        /\ threads[u].id # threads[t].id
        /\ threads[u].id \in DOMAIN store

\* C15: update on an id that is not in the store returns without raising,
\* creates no record and changes no stored record.
C15_MissingNoop ==
    [][\A t \in StoreThreads :
          /\ WaitingUpdate(t) /\ threads[t].id \notin DOMAIN store
          /\ threads'[t] # threads[t]
          => /\ threads'[t].pc = "idle" /\ threads'[t].out = "noop"
             /\ store' = store /\ objects' = objects /\ lock' = lock]_vars

\* an update of an unknown id has returned while the store holds another record
C15_Witness ==
    \E t \in StoreThreads :
        /\ threads[t].pc = "idle" /\ threads[t].out = "noop"
        /\ store # << >>

\* the statuses the claims call succeeded, failed and cancelled
Succeeded(status) == status \in {"SUCCEEDED", "succeeded"}

Failed(status) == status \in {"FAILED", "failed"}

Cancelled(status) == status \in {"CANCELLED", "cancelled", "CANCELED", "canceled"}

\* the latest step of the client was a round of the poll loop
JustPolled ==
    \/ gen.pc \in {"sleep", "fetch"}
    \/ gen.pc = "raised" /\ gen.err \in {"status failed", "task failed", "no video URL in output"}

\* C19: a non-2xx answer fails the poll; succeeded yields the URL of a list
\* or object output; failed or cancelled ends the loop with a task failure;
\* any other status sleeps and polls again.
C19_Classification ==
    JustPolled =>
        /\ gen.resp.code >= 300 => gen.pc = "raised" /\ gen.err = "status failed"
        /\ gen.resp.code < 300 /\ Succeeded(gen.resp.status) /\ gen.resp.output.urls # << >>
              => gen.pc = "fetch" /\ gen.url = gen.resp.output.urls
        /\ gen.resp.code < 300 /\ (Failed(gen.resp.status) \/ Cancelled(gen.resp.status))
              => gen.pc = "raised" /\ gen.err = "task failed"
        /\ gen.pc = "fetch" => Succeeded(gen.resp.status)
        /\ gen.pc = "sleep" =>
              ~(Succeeded(gen.resp.status) \/ Failed(gen.resp.status)
                   \/ Cancelled(gen.resp.status))

\* the error each request of generate ends in when it fails
ErrorsOf(step) ==
    CASE step = "create" -> {"create failed", "KeyError"}
      [] step = "poll" -> {"status failed", "task failed", "no video URL in output"}
      [] step = "fetch" -> {"download failed"}

\* C20: submit, poll, fetch in that order: polls only with a task id, a
\* fetch only with an output URL; the run stops at its first failure, which
\* is the error the caller gets.
C20_Order ==
    /\ [](/\ gen.calls.poll > 0 => gen.calls.create = 1 /\ gen.task_id # None
          /\ gen.calls.fetch > 0 => gen.calls.poll > 0 /\ gen.url # None
          /\ gen.pc = "raised" =>
                \/ gen.err \in ErrorsOf("create") /\ gen.calls.poll = 0 /\ gen.calls.fetch = 0
                \/ gen.err \in ErrorsOf("poll") /\ gen.calls.poll > 0 /\ gen.calls.fetch = 0
                \/ gen.err \in ErrorsOf("fetch") /\ gen.calls.fetch = 1)
    /\ [][gen.pc = "raised" => gen'.calls.create = 1 /\ gen'.calls.poll = 0
                                   /\ gen'.calls.fetch = 0]_gen

\* a run that polled more than once and stopped at a failed poll, before any fetch
C20_Witness ==
    /\ gen.pc = "raised" /\ gen.err = "task failed"
    /\ gen.calls.poll > 1 /\ gen.calls.fetch = 0

\* C17: a job whose record is processing eventually has a record that is
\* done or error.
C17_EventuallyTerminal ==
    \A j \in JobIds :
        (j \in DOMAIN jobs /\ jobs[j].status = "processing")
            ~> (j \in DOMAIN jobs /\ Terminal(jobs[j].status))

\* the log records of job j that the bucket holds
LogsOf(j) == {status \in {"success", "error"} : LogKey(j, status) \in bucket}

\* C22: a job has at most one log record and it matches the outcome: once
\* the pipeline is over, a success record goes with done and a failure
\* record with error; no job has both.
C22_OneLogPerOutcome ==
    \A j \in DOMAIN jobs :
        /\ Cardinality(LogsOf(j)) <= 1
        /\ \A i \in TasksOf(j) :
              tasks[i].pc \in {"finished", "raised"} =>
                  /\ "success" \in LogsOf(j) => jobs[j].status = "done"
                  /\ "error" \in LogsOf(j) => jobs[j].status = "error"

\* C25: a record that is done belongs to a job whose artifact the storage
\* backend already holds, and the pipeline got there through a publish
\* that returned.
C25_DoneAfterPublish ==
    /\ [](\A j \in DOMAIN jobs :
             jobs[j].status = "done" =>
                 \E i \in TasksOf(j) :
                     /\ ArtifactKey(tasks[i]) \in bucket
                     /\ tasks[i].url = Some(UrlOf(ArtifactKey(tasks[i]))))
    /\ [][\A j \in DOMAIN jobs :
             jobs[j].status # "done" /\ jobs'[j].status = "done" =>
                 \E i \in TasksOf(j) :
                     /\ tasks[i].pc \in {"persist_done", "mem_done"}
                     /\ ArtifactKey(tasks[i]) \in bucket]_vars

\* a poll has answered done with the URL of an artifact the backend holds
C25_Witness ==
    /\ lastPoll.found /\ lastPoll.status = "done"
    /\ \E i \in TasksOf(lastPoll.id) :
          /\ lastPoll.video_url = Some(UrlOf(ArtifactKey(tasks[i])))
          /\ ArtifactKey(tasks[i]) \in bucket

\* the order queued < processing < {done, error}
Rank(status) ==
    CASE status = "queued" -> 0
      [] status = "processing" -> 1
      [] OTHER -> 2

\* C24: no create or update of the JobStore moves the status of a stored
\* record to an earlier one in the order queued < processing < {done, error}.
C24_NoRegress ==
    [][\A j \in DOMAIN store :
          j \in DOMAIN store' =>
              Rank(objects'[store'[j]].status) >= Rank(objects[store[j]].status)]_vars

\* C23: a job that was queued or processing when the process died keeps its
\* record as it was: no pipeline of it is scheduled or running after the
\* restart, the record never changes, and every poll of it answers with
\* that status.
C23_Abandoned ==
    /\ [](\A j \in orphans :
             /\ jobs[j].status \in {"queued", "processing"}
             /\ \A i \in TasksOf(j) : tasks[i].pc = "dead")
    /\ [][/\ \A j \in orphans : jobs'[j] = jobs[j]
          /\ \A j \in orphans' \ orphans : jobs'[j] = jobs[j]
          /\ \A j \in orphans :
                lastPoll' # lastPoll /\ lastPoll'.id = j
                    => lastPoll' = GetJobResponse(j, jobs[j])]_vars

\* after a restart a later job has been run to done while the job that was
\* processing at the restart is still polled as processing
C23_Witness ==
    \E j \in orphans, k \in DOMAIN jobs :
        /\ k \notin orphans /\ jobs[k].status = "done"
        /\ TasksOf(j) # {}
        /\ lastPoll.found /\ lastPoll.id = j /\ lastPoll.status = "processing"

\* the probe advertises a positive content length: it was answered, with a
\* header made of decimal digits that are not all zero
PositiveLength(probe) ==
    /\ probe.ok /\ probe.cl # None
    /\ probe.cl[1] # << >>
    /\ \A k \in DOMAIN probe.cl[1] : probe.cl[1][k] \in {"0", "7"}
    /\ \E k \in DOMAIN probe.cl[1] : probe.cl[1][k] = "7"

\* the bytes a base64 text stands for
RECURSIVE B64Decode(_)
B64Decode(p) ==
    IF p = << >> THEN << >>
    ELSE LET b1 == p[1] * 4 + p[2] \div 16
             b2 == (p[2] % 16) * 16 + p[3] \div 4
             b3 == (p[3] % 4) * 64 + p[4]
             rest == B64Decode(SubSeq(p, 5, Len(p)))
         IN IF p[3] = 64 THEN <<b1>>
            ELSE IF p[4] = 64 THEN <<b1, b2>>
            ELSE <<b1, b2, b3>> \o rest

\* C21: with a positive content length advertised the result is the
\* resolved URL and no body is downloaded; otherwise a fetched body of at
\* most 10 MiB gives a base64 data reference of exactly its bytes, and a
\* fetched body of more than 10 MiB gives a failure and no result.
C21_Normalizer ==
    norm.pc \in {"returned", "raised"} =>
        /\ PositiveLength(norm.probe) =>
              /\ norm.pc = "returned" /\ ~norm.fetched
              /\ norm.result = Some([kind |-> "url", url |-> norm.probe.final,
                                     mime |-> "", payload |-> << >>])
        /\ ~PositiveLength(norm.probe) =>
              /\ norm.fetched
              /\ norm.result # None => norm.result[1].kind = "data"
        /\ ~PositiveLength(norm.probe) /\ norm.resp.ok /\ norm.resp.code = 200 =>
              IF norm.resp.body.size <= 10 * 1024 * 1024
              THEN /\ norm.pc = "returned" /\ norm.result # None
                   /\ norm.result[1].kind = "data"
                   /\ Len(norm.result[1].payload) % 4 = 0
                   /\ B64Decode(norm.result[1].payload) = norm.resp.body.bytes
              ELSE norm.pc = "raised" /\ norm.result = None

\* a body of exactly 10 MiB has been inlined after a probe that advertised
\* a length of zero
C21_Witness ==
    /\ norm.pc = "returned" /\ norm.result # None
    /\ norm.probe.ok /\ norm.probe.cl = Some(<<"0">>)
    /\ norm.result[1].kind = "data" /\ norm.resp.body.bytes = <<0, 77, 255>>
    /\ norm.resp.body.size = 10 * 1024 * 1024

====
